---- MODULE Spec2Model ----
(***************************************************************************)
(* A model of rppy/reflectivity.py: Snell ray tracing, the isotropic and   *)
(* anisotropic reflectivity formulas, the Thomsen/stiffness conversion and *)
(* the elastic impedance transforms.                                       *)
(*                                                                         *)
(* Numbers.  A float is modelled by a record v with v.k one of             *)
(*   "q"    the exact rational v.n / v.d (lowest terms, v.d > 0);          *)
(*   "nan"  not-a-number;                                                  *)
(*   "inf"  an infinity of sign v.n;                                       *)
(*   "fin"  a finite real whose value is not tracked (an irrational root   *)
(*          or logarithm, or a rational too long to track); v.n = 1 when   *)
(*          it is known to be nonzero;                                     *)
(*   "unk"  a float about which nothing is tracked;                        *)
(*   "none" Python's None.                                                 *)
(* An angle of [0, pi/2] is the record [k |-> "ang", s, c, h]: the angle   *)
(* whose sine is s and cosine is c, divided by h (h = 2 for the mean of    *)
(* two angles, kept as the half of their sum).                             *)
(***************************************************************************)
EXTENDS Integers, Sequences, FiniteSets, TLC

(* ---------------------------------------------------------------- numbers *)

Abs(x) == IF x < 0 THEN -x ELSE x

RECURSIVE Gcd(_, _)
Gcd(a, b) == IF b = 0 THEN a ELSE Gcd(b, a % b)

Q(n, d) ==
  LET g == Gcd(Abs(n), Abs(d))
      sg == IF d < 0 THEN -1 ELSE 1
  IN [n |-> sg * (n \div g), d |-> Abs(d) \div g, k |-> "q"]

\* Rationals are tracked exactly while numerator and denominator stay within Big;
\* beyond it only "a finite real" is kept.
Big == 30000

I(n) == [n |-> n, d |-> 1, k |-> "q"]
Zero == I(0)
One == I(1)
Two == I(2)
Half == [n |-> 1, d |-> 2, k |-> "q"]
NaN == [n |-> 0, d |-> 1, k |-> "nan"]
None == [n |-> 0, d |-> 1, k |-> "none"]
Unk == [n |-> 0, d |-> 1, k |-> "unk"]
Inf(sgn) == [n |-> sgn, d |-> 1, k |-> "inf"]
Fin(nz) == [n |-> nz, d |-> 1, k |-> "fin"]

QB(n, d) ==
  LET r == Q(n, d)
  IN IF Abs(r.n) > Big \/ r.d > Big THEN Fin(1) ELSE r

Sign(a) == IF a.n > 0 THEN 1 ELSE IF a.n < 0 THEN -1 ELSE 0
IsZero(a) == a.k = "q" /\ a.n = 0
IsQ(a) == a.k = "q"
\* A real number (a value that is neither nan, an infinity, None nor unknown).
IsReal(a) == a.k \in {"q", "fin"}

Neg(a) ==
  IF a.k = "q" THEN [a EXCEPT !.n = -a.n]
  ELSE IF a.k = "inf" THEN Inf(-a.n)
  ELSE a

Add(a, b) ==
  IF a.k = "nan" \/ b.k = "nan" THEN NaN
  ELSE IF a.k = "unk" \/ b.k = "unk" THEN Unk
  ELSE IF a.k = "inf" /\ b.k = "inf" THEN (IF a.n = b.n THEN a ELSE NaN)
  ELSE IF a.k = "inf" THEN a
  ELSE IF b.k = "inf" THEN b
  ELSE IF a.k = "fin" THEN (IF IsZero(b) THEN a ELSE Fin(0))
  ELSE IF b.k = "fin" THEN (IF IsZero(a) THEN b ELSE Fin(0))
  ELSE LET l == (a.d \div Gcd(a.d, b.d)) * b.d
       IN QB(a.n * (l \div a.d) + b.n * (l \div b.d), l)

Sub(a, b) == Add(a, Neg(b))

Mul(a, b) ==
  IF a.k = "nan" \/ b.k = "nan" THEN NaN
  ELSE IF a.k = "unk" \/ b.k = "unk" THEN Unk
  ELSE IF a.k = "inf" \/ b.k = "inf" THEN
         (IF IsZero(a) \/ IsZero(b) THEN NaN
          ELSE IF a.k = "fin" \/ b.k = "fin" THEN Unk
          ELSE Inf(Sign(a) * Sign(b)))
  ELSE IF IsZero(a) \/ IsZero(b) THEN Zero
  ELSE IF a.k = "fin" \/ b.k = "fin" THEN
         Fin(IF (a.k = "q" \/ a.n = 1) /\ (b.k = "q" \/ b.n = 1) THEN 1 ELSE 0)
  ELSE LET g1 == Gcd(Abs(a.n), b.d)
           g2 == Gcd(Abs(b.n), a.d)
       IN QB((a.n \div g1) * (b.n \div g2), (a.d \div g2) * (b.d \div g1))

\* Division of floats: a zero divisor gives an infinity or nan (a warning),
\* never an exception.
Div(a, b) ==
  IF a.k = "nan" \/ b.k = "nan" THEN NaN
  ELSE IF a.k = "unk" \/ b.k = "unk" THEN Unk
  ELSE IF IsZero(b) THEN
         (IF IsZero(a) THEN NaN
          ELSE IF a.k = "fin" THEN Unk
          ELSE Inf(Sign(a)))
  ELSE IF b.k = "inf" THEN (IF a.k = "inf" THEN NaN ELSE Zero)
  ELSE IF a.k = "inf" THEN (IF b.k = "fin" THEN Unk ELSE Inf(Sign(a) * Sign(b)))
  ELSE IF b.k = "fin" THEN
         (IF b.n = 0 THEN Unk
          ELSE IF IsZero(a) THEN Zero
          ELSE Fin(IF a.k = "q" \/ a.n = 1 THEN 1 ELSE 0))
  ELSE IF a.k = "fin" THEN a
  ELSE Mul(a, Q(b.d, b.n))

Less(a, b) == IsQ(a) /\ IsQ(b) /\ a.n * b.d < b.n * a.d

RECURSIVE ISqrtFrom(_, _)
ISqrtFrom(n, r) == IF (r + 1) * (r + 1) > n THEN r ELSE ISqrtFrom(n, r + 1)
ISqrt(n) == ISqrtFrom(n, 0)
IsSquare(n) == n >= 0 /\ ISqrt(n) * ISqrt(n) = n

\* np.sqrt: nan (a warning) below zero.
Sqrt(a) ==
  IF a.k = "nan" THEN NaN
  ELSE IF a.k = "inf" THEN (IF a.n > 0 THEN a ELSE NaN)
  ELSE IF a.k # "q" THEN Unk
  ELSE IF a.n < 0 THEN NaN
  ELSE IF IsSquare(a.n) /\ IsSquare(a.d) THEN Q(ISqrt(a.n), ISqrt(a.d))
  ELSE Fin(1)

\* np.log of a float.
Log(a) ==
  IF a.k = "nan" THEN NaN
  ELSE IF a.k = "inf" THEN (IF a.n > 0 THEN a ELSE NaN)
  ELSE IF a.k # "q" THEN Unk
  ELSE IF a.n < 0 THEN NaN
  ELSE IF a.n = 0 THEN Inf(-1)
  ELSE IF a = One THEN Zero
  ELSE Fin(1)

RECURSIVE IPow(_, _)
IPow(a, e) == IF e = 0 THEN One ELSE Mul(a, IPow(a, e - 1))

\* a ** e for a positive base: exact for an integer exponent.
Pow(a, e) ==
  IF a.k = "nan" \/ e.k = "nan" THEN NaN
  ELSE IF ~IsQ(e) \/ ~IsQ(a) THEN Unk
  ELSE IF e.d = 1 THEN (IF e.n >= 0 THEN IPow(a, e.n) ELSE Div(One, IPow(a, -e.n)))
  ELSE IF a = One THEN One
  ELSE IF a.n > 0 THEN Fin(1)
  ELSE Unk

Sq(a) == Mul(a, a)

(* ----------------------------------------------------------------- angles *)

Ang(s, c) == [k |-> "ang", s |-> s, c |-> c, h |-> 1]

\* np.arcsin: nan (a warning) outside [-1, 1].
ArcSin(x) ==
  IF x.k = "nan" THEN NaN
  ELSE IF ~IsQ(x) THEN Unk
  ELSE IF Less(One, x) \/ Less(x, I(-1)) THEN NaN
  ELSE Ang(x, Sqrt(Sub(One, Sq(x))))

\* np.sin, np.cos of a float.  The float nearest pi/2 has a tiny nonzero cosine.
Sin(a) ==
  IF a.k = "ang" THEN (IF a.h = 1 THEN a.s ELSE Sqrt(Mul(Half, Sub(One, a.c))))
  ELSE IF a.k = "nan" THEN NaN ELSE Unk

Cos(a) ==
  IF a.k = "ang" THEN
     (IF a.h = 1 THEN (IF a.s = One THEN Fin(1) ELSE a.c)
      ELSE Sqrt(Mul(Half, Add(One, a.c))))
  ELSE IF a.k = "nan" THEN NaN ELSE Unk

\* np.sin(x)**2, np.cos(x)**2, np.tan(x)**2
SinSq(a) ==
  IF a.k = "ang" THEN (IF a.h = 1 THEN Sq(a.s) ELSE Mul(Half, Sub(One, a.c)))
  ELSE IF a.k = "nan" THEN NaN ELSE Unk

CosSq(a) ==
  IF a.k = "ang" THEN (IF a.h = 1 THEN Sq(Cos(a)) ELSE Mul(Half, Add(One, a.c)))
  ELSE IF a.k = "nan" THEN NaN ELSE Unk

TanSq(a) == Div(SinSq(a), CosSq(a))

\* np.sin(2.*x)
Sin2x(a) ==
  IF a.k = "ang" /\ a.h = 1 THEN Mul(Two, Mul(a.s, a.c))
  ELSE IF a.k = "nan" THEN NaN ELSE Unk

\* (x + y)/2 of two angles: half of the angle x + y.
MeanAngle(x, y) ==
  IF x.k = "nan" \/ y.k = "nan" THEN NaN
  ELSE IF x.k # "ang" \/ y.k # "ang" THEN Unk
  ELSE [k |-> "ang", s |-> Add(Mul(x.s, y.c), Mul(x.c, y.s)),
        c |-> Sub(Mul(x.c, y.c), Mul(x.s, y.s)), h |-> 2]

\* x >= y of two floats holding angles of [0, pi/2]; False when either is nan.
AngleGE(x, y) == x.k = "ang" /\ y.k = "ang" /\ ~Less(x.s, y.s)

(* ----------------------------------------------------------------- inputs *)

\* The longest incidence-angle sequence a call is given.
MaxLen == 2

\* A layer: velocities, density and Thomsen parameters (epsilon, delta, gamma).
Layer(vp, vs, rho, epsilon, delta, gamma) ==
  [vp |-> I(vp), vs |-> I(vs), rho |-> I(rho),
   epsilon |-> epsilon, delta |-> delta, gamma |-> gamma]

Layers ==
  { Layer(4, 3, 2, Zero, Zero, Zero),
    Layer(5, 3, 2, Q(1, 5), Zero, Q(1, 10)),
    Layer(5, 4, 3, Zero, Zero, Zero),
    Layer(6, 5, 3, Q(1, 10), Q(1, 10), Zero) }

\* Incidence angles of [0, pi/2]: 0, arcsin(3/5), arcsin(4/5), pi/2.
Angles == { Ang(Zero, One), Ang(Q(3, 5), Q(4, 5)), Ang(Q(4, 5), Q(3, 5)), Ang(One, Zero) }

AngleSeqs == UNION { [1..m -> Angles] : m \in 0..MaxLen }

\* The functions that start with a call of snell, and snell itself.
SnellCallers ==
  {"shuey", "aki_richards", "zoeppritz", "bortfeld", "ruger_vti", "exact_vti", "ruger_hti"}

\* Reference values of extended_elastic_impedance: the defaults and a material's own.
Reference(vp, vs, rho) == [vp |-> vp, vs |-> vs, rho |-> rho]

References == {Reference(One, One, One)} \cup {Reference(l.vp, l.vs, l.rho) : l \in Layers}

(* ------------------------------------------------------------------ state *)

VARIABLES
  dtype,     \* dtype of np.full(shape, None): "float" (None is stored as nan) or "object"
  pc,        \* "idle", "snell", "body", "done"
  fn,        \* the function called
  up, lo,    \* upper and lower layer (up alone: the medium of a one-medium call)
  theta1,    \* the incidence-angle sequence
  az,        \* the scalar angle argument: az (ruger_hti), theta or chi (impedances)
  ref,       \* Vp0, Vs0, p0 of extended_elastic_impedance
  stiff,     \* the stiffness matrix given to thomsen
  n,         \* loop index (iterations done) of the running loop
  p, theta2, thetas1, thetas2,   \* snell's arrays
  Rpp, Rps, Tpp, Tps,            \* zoeppritz's arrays
  ret        \* the call's outcome: [exc |-> exception or "none", val |-> value]

vars == <<dtype, pc, fn, up, lo, theta1, az, ref, stiff, n, p, theta2, thetas1, thetas2,
          Rpp, Rps, Tpp, Tps, ret>>

Ret(v) == [exc |-> "none", val |-> v]
Raise(e) == [exc |-> e, val |-> <<>>]
NoRet == [exc |-> "running", val |-> <<>>]

\* What an array of np.full(shape, None) holds where None is put.
Store(v) == IF v = None /\ dtype = "float" THEN NaN ELSE v

Full(len, v) == [i \in 1..len |-> v]

HasNone(arr) == \E i \in 1..Len(arr) : arr[i] = None

(* ------------------------------------------------------------------ snell *)

ThetaCrit1(vp1, vp2) == ArcSin(Div(vp1, vp2))
ThetaCrit2(vp1, vs2) == ArcSin(Div(vp1, vs2))

\* One pass of snell's loop: the four values written at index n.
SnellElem(vp1, vp2, vs1, vs2, th) ==
  LET pn == Div(Sin(th), vp1)
      ts1 == ArcSin(Mul(pn, vs1))
  IN IF AngleGE(th, ThetaCrit1(vp1, vp2))
       THEN [p |-> pn, theta2 |-> None, thetas1 |-> ts1, thetas2 |-> ArcSin(Mul(pn, vs2))]
     ELSE IF AngleGE(th, ThetaCrit2(vp1, vs2))
       THEN [p |-> pn, theta2 |-> None, thetas1 |-> ts1, thetas2 |-> None]
     ELSE [p |-> pn, theta2 |-> ArcSin(Mul(pn, vp2)), thetas1 |-> ts1,
           thetas2 |-> ArcSin(Mul(pn, vs2))]

(* --------------------------------------------------- isotropic approximations *)

\* An elementwise numpy operation on a non-empty object array has no loop for it
\* (np.sin, np.cos look for a method of that name on each element).
NoUfuncLoop(arr) == dtype = "object" /\ Len(arr) > 0

\* shuey with the density term of its intercept left out.
ShueyRppNoDensity(vp1, vs1, rho1, vp2, vs2, rho2, theta) ==
  LET dvp == Sub(vp2, vp1)
      vp == Div(Add(vp1, vp2), Two)
  IN Add(Mul(Half, Div(dvp, vp)), Mul(Div(Mul(Half, dvp), vp), TanSq(theta)))

\* Rpp of shuey at one angle, theta the mean of theta1 and theta2.
ShueyRpp(vp1, vs1, rho1, vp2, vs2, rho2, theta) ==
  LET dvp == Sub(vp2, vp1)
      drho == Sub(rho2, rho1)
      dvs == Sub(vs2, vs1)
      rho == Div(Add(rho1, rho2), Two)
      vs == Div(Add(vs1, vs2), Two)
      vp == Div(Add(vp1, vp2), Two)
      A == Mul(Half, Add(Div(dvp, vp), Div(drho, rho)))
      B == Sub(Div(Mul(Half, dvp), vp),
               Mul(Div(Mul(Two, Sq(vs)), Sq(vp)),
                   Add(Div(drho, rho), Div(Mul(Two, dvs), vs))))
      C == Div(Mul(Half, dvp), vp)
  IN Add(Add(A, Mul(B, SinSq(theta))), Mul(C, Sub(TanSq(theta), SinSq(theta))))

shuey(vp1, vs1, rho1, vp2, vs2, rho2, th1, th2) ==
  IF HasNone(th2) THEN Raise("TypeError")
  ELSE IF NoUfuncLoop(th2) THEN Raise("TypeError")
  ELSE Ret([i \in 1..Len(th1) |->
              ShueyRpp(vp1, vs1, rho1, vp2, vs2, rho2, MeanAngle(th1[i], th2[i]))])

\* Rpp of aki_richards at one angle, pn the ray parameter.
AkiRichardsRpp(vp1, vs1, rho1, vp2, vs2, rho2, theta, pn) ==
  LET dvp == Sub(vp2, vp1)
      dvs == Sub(vs2, vs1)
      drho == Sub(rho2, rho1)
      rho == Div(Add(rho1, rho2), Two)
      vp == Div(Add(vp1, vp2), Two)
      vs == Div(Add(vs1, vs2), Two)
      k == Mul(I(4), Mul(Sq(pn), Sq(vs)))
  IN Sub(Add(Mul(Mul(Half, Sub(One, k)), Div(drho, rho)),
             Div(dvp, Mul(Mul(Two, CosSq(theta)), vp))),
         Div(Mul(k, dvs), vs))

aki_richards(vp1, vs1, rho1, vp2, vs2, rho2, th1, th2, pp) ==
  IF HasNone(th2) THEN Raise("TypeError")
  ELSE IF NoUfuncLoop(th2) THEN Raise("TypeError")
  ELSE Ret([i \in 1..Len(th1) |->
              AkiRichardsRpp(vp1, vs1, rho1, vp2, vs2, rho2,
                             MeanAngle(th1[i], th2[i]), pp[i])])

\* Rpp of bortfeld at one angle.
BortfeldRpp(vp1, vs1, rho1, vp2, vs2, rho2, t1, t2) ==
  Add(Mul(Half, Log(Div(Mul(Mul(vp2, rho2), Cos(t1)), Mul(Mul(vp1, rho1), Cos(t2))))),
      Mul(Mul(Sq(Div(Sin(t1), vp1)), Sub(Sq(vs1), Sq(vs2))),
          Add(Two, Div(Log(Div(rho2, rho1)), Log(Div(vs2, vs1))))))

bortfeld(vp1, vs1, rho1, vp2, vs2, rho2, th1, th2) ==
  IF NoUfuncLoop(th2) THEN Raise("TypeError")
  ELSE Ret([i \in 1..Len(th1) |->
              BortfeldRpp(vp1, vs1, rho1, vp2, vs2, rho2, th1[i], th2[i])])

(* ------------------------------------------------------------- zoeppritz *)

Lcm(a, b) == (a \div Gcd(a, b)) * b

\* Determinants are taken over the integers: each row of the system (m | b) is
\* first multiplied by the least common denominator of its entries, which leaves
\* the quotients det(m_i)/det(m) unchanged.
RowDen(m, b, i) == Lcm(Lcm(Lcm(m[i][1].d, m[i][2].d), Lcm(m[i][3].d, m[i][4].d)), b[i].d)
ScaleRow(row, l) == [j \in 1..4 |-> row[j].n * (l \div row[j].d)]

IDet2(a, b, c, d) == a * d - b * c

\* Determinant of the 3x3 matrix left of m by dropping row r and column c.
Minor(m, r, c) ==
  LET rs == [i \in 1..3 |-> IF i < r THEN i ELSE i + 1]
      cs == [j \in 1..3 |-> IF j < c THEN j ELSE j + 1]
      e(i, j) == m[rs[i]][cs[j]]
  IN e(1, 1) * IDet2(e(2, 2), e(2, 3), e(3, 2), e(3, 3))
     - e(1, 2) * IDet2(e(2, 1), e(2, 3), e(3, 1), e(3, 3))
     + e(1, 3) * IDet2(e(2, 1), e(2, 2), e(3, 1), e(3, 2))

Det4(m) ==
  m[1][1] * Minor(m, 1, 1) - m[1][2] * Minor(m, 1, 2)
  + m[1][3] * Minor(m, 1, 3) - m[1][4] * Minor(m, 1, 4)

\* m with column c replaced by the vector b.
ReplaceCol(m, c, b) == [i \in 1..4 |-> [j \in 1..4 |-> IF j = c THEN b[i] ELSE m[i][j]]]

Entries(m) == { m[i][j] : i \in 1..4, j \in 1..4 }

\* The boundary-condition matrices of one incidence angle.
ZoeppritzM(vp1, vs1, rho1, vp2, vs2, rho2, t1, ts1, t2, ts2) ==
  << << Neg(Sin(t1)), Neg(Cos(ts1)), Sin(t2), Cos(ts2) >>,
     << Cos(t1), Neg(Sin(ts1)), Cos(t2), Neg(Sin(ts2)) >>,
     << Mul(Mul(Mul(Two, rho1), vs1), Mul(Sin(ts1), Cos(t1))),
        Mul(Mul(rho2, vs1), Sub(One, Mul(Two, SinSq(ts2)))),
        Mul(Mul(Mul(Two, rho2), vs2), Mul(Sin(ts2), Cos(t2))),
        Mul(Mul(rho2, vs2), Sub(One, Mul(Two, SinSq(ts2)))) >>,
     << Neg(Mul(Mul(rho1, vp1), Sub(One, Mul(Two, SinSq(ts1))))),
        Mul(Mul(rho1, vs1), Sin2x(ts1)),
        Mul(Mul(rho2, vp2), Sub(One, Mul(Two, SinSq(ts2)))),
        Neg(Mul(Mul(rho2, vs2), Sin2x(ts2))) >> >>

ZoeppritzN(vp1, vs1, rho1, vp2, vs2, rho2, t1, ts1, t2, ts2) ==
  << << Sin(t1), Cos(ts1), Neg(Sin(t2)), Neg(Cos(ts2)) >>,
     << Cos(t1), Neg(Sin(ts1)), Cos(t2), Neg(Sin(ts2)) >>,
     << Mul(Mul(Mul(Two, rho1), vs1), Mul(Sin(ts1), Cos(t1))),
        Mul(Mul(rho2, vs1), Sub(One, Mul(Two, SinSq(ts2)))),
        Mul(Mul(Mul(Two, rho2), vs2), Mul(Sin(ts2), Cos(t2))),
        Mul(Mul(rho2, vs2), Sub(One, Mul(Two, SinSq(ts2)))) >>,
     << Mul(Mul(rho1, vp1), Sub(One, Mul(Two, SinSq(ts1)))),
        Neg(Mul(Mul(rho1, vs1), Sin2x(ts1))),
        Neg(Mul(Mul(rho2, vp2), Sub(One, Mul(Two, SinSq(ts2))))),
        Mul(Mul(rho2, vs2), Sin2x(ts2)) >> >>

\* The first column of np.dot(np.linalg.inv(m), nn): LinAlgError for a singular
\* m; nan throughout when m holds a nan (LAPACK meets no zero pivot).
SolveFirstColumn(m, nn) ==
  LET b == [i \in 1..4 |-> nn[i][1]]
      isQ == \A x \in Entries(m) \cup {b[i] : i \in 1..4} : x.k = "q"
      mi == [i \in 1..4 |-> ScaleRow(m[i], RowDen(m, b, i))]
      bi == [i \in 1..4 |-> b[i].n * (RowDen(m, b, i) \div b[i].d)]
      det == Det4(mi)
  IN IF \E x \in Entries(m) : x.k = "nan" THEN Ret([i \in 1..4 |-> NaN])
     ELSE IF ~isQ THEN Ret([i \in 1..4 |-> Unk])
     ELSE IF det = 0 THEN Raise("LinAlgError")
     ELSE Ret([i \in 1..4 |-> QB(Det4(ReplaceCol(mi, i, bi)), det)])

\* One pass of zoeppritz's loop: (Rpp, Rps, Tpp, Tps) of the angle at index n.
\* np.sin(None) and np.cos(None) raise TypeError.
ZoeppritzElem(vp1, vs1, rho1, vp2, vs2, rho2, t1, ts1, t2, ts2) ==
  IF None \in {t1, ts1, t2, ts2} THEN Raise("TypeError")
  ELSE SolveFirstColumn(ZoeppritzM(vp1, vs1, rho1, vp2, vs2, rho2, t1, ts1, t2, ts2),
                        ZoeppritzN(vp1, vs1, rho1, vp2, vs2, rho2, t1, ts1, t2, ts2))

\* What zoeppritz returns once its loop is over.
ZoeppritzResult(rpp, rps, tpp, tps) == rpp

(* ------------------------------------------------- anisotropic approximations *)

\* Rpp of ruger_vti at one angle: theta is theta1, the mean angle is overwritten.
RugerVtiRpp(Vp1, Vs1, p1, e1, d1, Vp2, Vs2, p2, e2, d2, theta) ==
  LET u1 == Mul(p1, Sq(Vs1))
      u2 == Mul(p2, Sq(Vs2))
      Z1 == Mul(p1, Vp1)
      Z2 == Mul(p2, Vp2)
      a == Div(Add(Vp1, Vp2), Two)
      B == Div(Add(Vs1, Vs2), Two)
      Z == Div(Add(Z1, Z2), Two)
      u == Div(Add(u1, u2), Two)
      dZ == Sub(Z2, Z1)
      da == Sub(Vp2, Vp1)
      du == Sub(u2, u1)
      dd == Sub(d2, d1)
      de == Sub(e2, e1)
      Rpp_iso == Add(Add(Mul(Half, Div(dZ, Z)),
                         Mul(Mul(Half, Sub(Div(da, a),
                                           Mul(Sq(Div(Mul(Two, B), a)), Div(du, u)))),
                             SinSq(theta))),
                     Mul(Mul(Mul(Half, Div(da, a)), SinSq(theta)), TanSq(theta)))
      Rpp_an == Add(Mul(Div(dd, Two), SinSq(theta)),
                    Mul(Mul(Div(de, Two), SinSq(theta)), TanSq(theta)))
  IN Add(Rpp_iso, Rpp_an)

ruger_vti(Vp1, Vs1, p1, e1, d1, Vp2, Vs2, p2, e2, d2, th1, th2) ==
  IF HasNone(th2) THEN Raise("TypeError")
  ELSE Ret([i \in 1..Len(th1) |->
              RugerVtiRpp(Vp1, Vs1, p1, e1, d1, Vp2, Vs2, p2, e2, d2, th1[i])])

\* np.cos(az)**4
CosP4(a) == Sq(CosSq(a))

\* Rpp of ruger_hti at one angle and azimuth.
RugerHtiRpp(Vp1, Vs1, p1, e1, dv1, y1, Vp2, Vs2, p2, e2, dv2, y2, theta, azm) ==
  LET u1 == Mul(p1, Sq(Vs1))
      u2 == Mul(p2, Sq(Vs2))
      Z1 == Mul(p1, Vp1)
      Z2 == Mul(p2, Vp2)
      a == Div(Add(Vp1, Vp2), Two)
      B0 == Div(Add(Vs1, Vs2), Two)
      Z == Div(Add(Z1, Z2), Two)
      u == Div(Add(u1, u2), Two)
      dZ == Sub(Z2, Z1)
      da == Sub(Vp2, Vp1)
      du == Sub(u2, u1)
      ddv == Sub(dv2, dv1)
      de == Sub(e2, e1)
      dy == Sub(y2, y1)
      k == Sq(Div(Mul(Two, B0), a))
      A == Mul(Half, Div(dZ, Z))
      B == Mul(Half, Add(Sub(Div(da, a), Div(Mul(k, du), u)),
                         Mul(Add(ddv, Mul(Mul(Two, k), dy)), SinSq(azm))))
      C == Mul(Half, Add(Add(Div(da, a), Mul(de, CosP4(azm))),
                         Mul(Mul(ddv, SinSq(azm)), CosSq(azm))))
  IN Add(Add(A, Mul(B, SinSq(theta))), Mul(Mul(C, SinSq(theta)), TanSq(theta)))

ruger_hti(Vp1, Vs1, p1, e1, dv1, y1, Vp2, Vs2, p2, e2, dv2, y2, th1, azm) ==
  Ret([i \in 1..Len(th1) |->
         RugerHtiRpp(Vp1, Vs1, p1, e1, dv1, y1, Vp2, Vs2, p2, e2, dv2, y2, th1[i], azm)])

(* ------------------------------------------------ Thomsen <-> stiffness tensor *)

\* A symmetric 6x6 stiffness matrix of a transversely isotropic medium: C11 = C22,
\* C33, C44 = C55, C66, C13 = C31, C12 = C21, C23 = C32; every other entry is zero.
Tensor(c11, c33, c13, c55, c66, c12, c23) ==
  [i \in 1..6 |-> [j \in 1..6 |->
     IF i = j THEN (IF i \in {1, 2} THEN c11 ELSE IF i = 3 THEN c33
                    ELSE IF i \in {4, 5} THEN c55 ELSE c66)
     ELSE IF {i, j} = {1, 3} THEN c13
     ELSE IF {i, j} = {1, 2} THEN c12
     ELSE IF {i, j} = {2, 3} THEN c23
     ELSE Zero]]

\* thomsen(C) = (e, d, y, dv)
thomsen(C) ==
  LET e == Div(Sub(C[1][1], C[3][3]), Mul(Two, C[3][3]))
      y == Div(Sub(C[6][6], C[5][5]), Mul(Two, C[5][5]))
      d == Div(Mul(Sub(Add(C[1][3], Mul(Two, C[5][5])), C[3][3]), Add(C[1][3], C[3][3])),
               Mul(Mul(Two, C[3][3]), Sub(C[3][3], C[5][5])))
      dv == Div(Sub(Sq(Add(C[1][3], C[5][5])), Sq(Sub(C[3][3], C[5][5]))),
                Mul(Mul(Two, C[3][3]), Sub(C[3][3], C[5][5])))
  IN <<e, d, y, dv>>

\* dtil taken as d itself, its weak-anisotropy limit.
DtilWeak(d, f) == d

\* The auxiliary quantity dtil = f*(sqrt(1 + 2*d/f) - 1) of Cij.
Dtil(d, f) == Mul(f, Sub(Sqrt(Add(One, Div(Mul(Two, d), f))), One))

Cij(e, d, y, pd, Vp, Vs) ==
  LET f == Sub(One, Sq(Div(Vs, Vp)))
      dtil == Dtil(d, f)
      pv2 == Mul(pd, Sq(Vp))
      c11 == Mul(pv2, Add(One, Mul(Two, e)))
      c33 == pv2
      c44 == Mul(pv2, Sub(One, f))
      c66 == Mul(Mul(pv2, Sub(One, f)), Add(One, Mul(Two, y)))
      c13 == Mul(pv2, Sub(Add(Mul(Two, f), dtil), One))
  IN Tensor(c11, c33, c13, c44, c66, Sub(c11, Mul(Two, c66)), Zero)

(* ------------------------------------------------------ anisotropic exact *)

\* The polarisation factors of exact_vti:
\*   sqrt(((Q - A33 + A55)/sin(t)**2 + (A11 + A33 - 2*A55))/(2*Q))
\*   sqrt(((Q - A11 + A55)/cos(t)**2 + (A11 + A33 - 2*A55))/(2*Q))
VtiL(Qm, A11, A33, A55, t) ==
  Sqrt(Div(Add(Div(Add(Sub(Qm, A33), A55), SinSq(t)),
               Sub(Add(A11, A33), Mul(Two, A55))),
           Mul(Two, Qm)))

VtiM(Qm, A11, A33, A55, t) ==
  Sqrt(Div(Add(Div(Add(Sub(Qm, A11), A55), CosSq(t)),
               Sub(Add(A11, A33), Mul(Two, A55))),
           Mul(Two, Qm)))

\* sqrt((A33 - A55)**2 + 2*A_1*sin(t) + A_2*sin(t)) with A_1, A_2 as in exact_vti.
VtiQ(A11, A13, A33, A55, t) ==
  LET A_1 == Sub(Mul(Two, Sq(Add(A13, A55))),
                 Mul(Sub(A33, A55), Sub(Add(A11, A33), Mul(Two, A55))))
      A_2 == Sub(Sq(Sub(Add(A11, A33), Mul(Two, A55))), Mul(I(4), Sq(Add(A13, A55))))
  IN Sqrt(Add(Add(Sq(Sub(A33, A55)), Mul(Mul(Two, A_1), Sin(t))), Mul(A_2, Sin(t))))

\* (l, m) at the P angle tp and (l, m) at the S angle ts of one medium:
\* <<l1, m1, l3, m3>> of the upper medium, <<l2, m2, l4, m4>> of the lower one.
VtiPolarisation(Qm, A11, A33, A55, tp, ts) ==
  << VtiL(Qm, A11, A33, A55, tp), VtiM(Qm, A11, A33, A55, tp),
     VtiL(Qm, A11, A33, A55, ts), VtiM(Qm, A11, A33, A55, ts) >>

\* <<T1, ..., T12>> of exact_vti.
VtiT(x2, nn, k1, k2, l, l1, m1, l2, m2, l3, m3, l4, m4, d1, d2, e1, e2, w1, w2, B1, B2) ==
  << Sub(e2, Div(Mul(e1, l2), Mul(nn, l1))),
     Sub(Div(Mul(Mul(Mul(B2, w2), k1), l3), m1),
         Mul(B1, Div(Mul(Mul(w1, k2), l4), Mul(nn, m1)))),
     Add(Mul(B2, w2), Mul(B1, Div(Mul(Mul(k2, x2), l4), Mul(nn, m1)))),
     Add(Div(Mul(e2, m3), l1), Div(Mul(Mul(d1, x2), l2), Mul(nn, l1))),
     Mul(B1, Add(w1, Div(Mul(Mul(k1, x2), l3), m1))),
     Add(Div(Mul(e2, m4), l1), Div(Mul(Mul(d2, x2), l2), Mul(nn, l1))),
     Sub(Mul(B2, l), Div(Mul(B1, m2), m1)),
     Sub(Div(Mul(d2, m3), l1), Div(Mul(d1, m4), l1)),
     Mul(B2, Add(Div(Mul(w2, m2), m1), Div(Mul(Mul(Mul(k2, x2), l), l4), Mul(nn, m1)))),
     Add(Div(Mul(e1, m3), l1), Mul(d1, x2)),
     Add(Div(Mul(e1, m4), l1), Mul(d2, x2)),
     Add(Div(Mul(Mul(Mul(Mul(B2, k1), x2), l), l3), m1), Div(Mul(Mul(B1, w1), m2), m1)) >>

\* <<E1, ..., E6>> of exact_vti.
VtiE(T, x2, P, Qs, R, S) ==
  << Mul(Mul(T[1], T[2]), x2),
     Mul(Mul(Mul(T[3], T[4]), P), Qs),
     Mul(Mul(Mul(T[5], T[6]), P), R),
     Mul(Mul(Mul(Mul(Mul(Mul(T[7], T[8]), x2), P), Qs), R), S),
     Mul(Mul(Mul(T[9], T[10]), Qs), S),
     Mul(Mul(Mul(T[11], T[12]), R), S) >>

\* D = E1 + ... + E6 and Rpp = (-E1 + E2 + E3 + E4 - E5 - E6)/D.
VtiRpp(E) ==
  Div(Sub(Sub(Add(Add(Add(Neg(E[1]), E[2]), E[3]), E[4]), E[5]), E[6]),
      Add(Add(Add(Add(Add(E[1], E[2]), E[3]), E[4]), E[5]), E[6]))

\* d, e, w of both media and l, from the polarisation factors u (upper medium)
\* and w (lower medium); then the terms T.
VtiTerms(V1, V2, V3, V4, x2, nn, k1, k2, u, v, t1, t2, t3, t4, C1_13, C1_33, C1_55, C2_13, C2_33, C2_55) ==
  VtiT(x2, nn, k1, k2,
       Div(Add(v[1], v[2]), Add(u[1], u[2])),
       u[1], u[2], v[1], v[2], u[3], u[4], v[3], v[4],
       Sub(Mul(u[3], C1_33), Mul(u[4], C1_13)),
       Sub(Mul(v[3], C2_33), Mul(v[4], C2_13)),
       Add(Mul(u[1], C1_13), Mul(Sub(Mul(u[2], C1_33), Mul(u[1], C1_13)), CosSq(t1))),
       Mul(Div(V1, V2),
           Add(Mul(v[1], C2_13), Mul(Sub(Mul(v[2], C2_33), Mul(v[1], C2_13)), CosSq(t2)))),
       Mul(Mul(Div(V1, V3), Div(One, Add(u[1], u[2]))),
           Sub(Mul(u[4], CosSq(t3)), Mul(u[3], SinSq(t3)))),
       Mul(Mul(Div(V1, V4), Div(One, Add(u[1], u[2]))),
           Sub(Mul(v[4], CosSq(t4)), Mul(v[3], SinSq(t4)))),
       C1_55, C2_55)

\* Rpp of exact_vti at one angle.
ExactVtiRpp(V1, V2, V3, V4, p1, p2, t1, t2, t3, t4, C1_11, C1_13, C1_33, C1_55, C2_11, C2_13, C2_33, C2_55) ==
  LET x2 == Sq(Sin(t1))
      nn == Div(V1, V2)
      k1 == Div(V3, V1)
      k2 == Div(V4, V2)
      P == Sqrt(Sub(One, x2))
      Qs == Sqrt(Sub(One, Mul(Sq(k1), x2)))
      S == Sqrt(Sub(One, Div(x2, Sq(nn))))
      R == Sqrt(Sub(One, Div(Mul(Sq(k2), x2), Sq(nn))))
      Q1 == VtiQ(Div(C1_11, p1), Div(C1_13, p1), Div(C1_33, p1), Div(C1_55, p1), t1)
      Q2 == VtiQ(Div(C2_11, p2), Div(C2_13, p2), Div(C2_33, p2), Div(C2_55, p2), t2)
  IN VtiRpp(VtiE(VtiTerms(V1, V2, V3, V4, x2, nn, k1, k2,
                          VtiPolarisation(Q1, Div(C1_11, p1), Div(C1_33, p1), Div(C1_55, p1), t1, t3),
                          VtiPolarisation(Q2, Div(C2_11, p2), Div(C2_33, p2), Div(C2_55, p2), t2, t4),
                          t1, t2, t3, t4, C1_13, C1_33, C1_55, C2_13, C2_33, C2_55),
                 x2, P, Qs, R, S))

exact_vti(V1, V2, V3, V4, p1, p2, th1, th2, th3, th4, C1_11, C1_13, C1_33, C1_55, C2_11, C2_13, C2_33, C2_55) ==
  IF NoUfuncLoop(th3) THEN Raise("TypeError")
  ELSE Ret([i \in 1..Len(th1) |->
              ExactVtiRpp(V1, V2, V3, V4, p1, p2, th1[i], th2[i], th3[i], th4[i],
                          C1_11, C1_13, C1_33, C1_55, C2_11, C2_13, C2_33, C2_55)])

\* The names bound in exact_hti when line 485 runs (its parameters and the locals
\* assigned so far) and the names bound at module level.
ExactHtiNames ==
  {"vp1", "vs1", "p1", "e1", "d1", "y1", "vp2", "vs2", "p2", "e2", "d2", "y2", "theta1",
   "C", "Cp", "s1", "s3", "s3p", "s3s", "E2", "A"}

ModuleNames ==
  {"np", "shuey", "aki_richards", "zoeppritz", "bortfeld", "snell", "thomsen", "Cij",
   "ruger_vti", "exact_vti", "ruger_hti", "tsvankin_ortho", "elastic_impedance",
   "extended_elastic_impedance", "exact_hti"}

\* exact_hti up to its first failing statement: lines 473-484 raise nothing, line
\* 485 reads the name p.  (Were p bound, C is a float after line 486 and C[0][2]
\* at line 508 cannot be indexed.)
exact_hti(vp1, vs1, p1, e1, d1, y1, vp2, vs2, p2, e2, d2, y2, th1) ==
  LET C == Cij(e1, d1, y1, p1, vp1, vs1)
      Cp == Cij(e2, d2, y2, p2, vp2, vs2)
  IN IF "p" \notin ExactHtiNames \cup ModuleNames THEN Raise("NameError")
     ELSE Raise("IndexError")

(* ------------------------------------------------------ elastic impedance *)

\* np.sin, np.cos, np.tan(x)**2 of a scalar angle argument.
elastic_impedance(Vp, Vs, pd, theta) ==
  LET K == Sq(Div(Vs, Vp))
  IN Mul(Mul(Pow(Vp, Add(One, TanSq(theta))),
             Pow(pd, Sub(One, Mul(Mul(I(4), K), SinSq(theta))))),
         Pow(Vs, Mul(Mul(I(-8), K), SinSq(theta))))

\* extended_elastic_impedance without its factor Vp0*p0.
ExtendedNoPrefactor(Vp, Vs, pd, chi, Vp0, Vs0, p0) ==
  LET K == Sq(Div(Vs, Vp))
  IN Mul(Mul(Pow(Div(Vp, Vp0), Add(Cos(chi), Sin(chi))),
             Pow(Div(pd, p0), Sub(Cos(chi), Mul(Mul(I(4), K), Sin(chi))))),
         Pow(Div(Vs, Vs0), Mul(Mul(I(-8), K), Sin(chi))))

extended_elastic_impedance(Vp, Vs, pd, chi, Vp0, Vs0, p0) ==
  LET K == Sq(Div(Vs, Vp))
  IN Mul(Mul(Mul(Mul(Vp0, p0),
                 Pow(Div(Vp, Vp0), Add(Cos(chi), Sin(chi)))),
             Pow(Div(pd, p0), Sub(Cos(chi), Mul(Mul(I(4), K), Sin(chi))))),
         Pow(Div(Vs, Vs0), Mul(Mul(I(-8), K), Sin(chi))))

(* ---------------------------------------------------------------- actions *)

\* The stability conditions of a transversely isotropic medium on its five constants.
PhysicallyValid(c11, c33, c13, c55, c66) ==
  /\ c33 > 0 /\ c55 > 0 /\ c66 > 0 /\ c11 > c66
  /\ (c11 - c66) * c33 > c13 * c13

\* Stiffness matrices of the medium l (C33 = rho*Vp^2, C55 = rho*Vs^2) given to
\* thomsen: isotropic and anisotropic, C13 + C55 of either sign, C23 filled or left zero.
Tensors(l) ==
  LET c33 == l.rho.n * l.vp.n * l.vp.n
      c55 == l.rho.n * l.vs.n * l.vs.n
  IN { Tensor(I(c11), I(c33), I(c13), I(c55), I(c66), I(c11 - 2 * c66), I(c23)) :
         <<c11, c13, c66, c23>> \in
           { t \in {c33, c33 + 10} \X {c33 - 2 * c55, 4, 0 - c55 - 3} \X {c55, c55 + 2}
                   \X {0, 4, c33 - 2 * c55, 0 - c55 - 3} :
               /\ PhysicallyValid(t[1], c33, t[2], c55, t[3])
               /\ t[4] \in {0, t[2]} } }

NoLayer == Layer(1, 1, 1, Zero, Zero, Zero)

Init ==
  /\ dtype \in {"float", "object"}
  /\ pc = "idle" /\ fn = "none"
  /\ up = NoLayer /\ lo = NoLayer
  /\ theta1 = <<>> /\ az = Ang(Zero, One) /\ n = 0
  /\ ref = Reference(One, One, One) /\ stiff = <<>>
  /\ p = <<>> /\ theta2 = <<>> /\ thetas1 = <<>> /\ thetas2 = <<>>
  /\ Rpp = <<>> /\ Rps = <<>> /\ Tpp = <<>> /\ Tps = <<>>
  /\ ret = NoRet

\* A call of snell or of a function that starts by calling snell.
Call ==
  /\ pc = "idle"
  /\ \E f \in SnellCallers \cup {"snell"}, l1 \in Layers, l2 \in Layers,
        th \in AngleSeqs, a \in Angles :
       /\ fn' = f /\ up' = l1 /\ lo' = l2 /\ theta1' = th
       /\ az' = (IF f = "ruger_hti" THEN a ELSE Ang(Zero, One))
       /\ p' = Full(Len(th), Store(None))
       /\ theta2' = Full(Len(th), Store(None))
       /\ thetas1' = Full(Len(th), Store(None))
       /\ thetas2' = Full(Len(th), Store(None))
  /\ pc' = "snell" /\ n' = 0
  /\ ret' = NoRet
  /\ UNCHANGED <<dtype, ref, stiff, Rpp, Rps, Tpp, Tps>>

SnellStep ==
  /\ pc = "snell" /\ n < Len(theta1)
  /\ LET e == SnellElem(up.vp, lo.vp, up.vs, lo.vs, theta1[n + 1])
     IN /\ p' = [p EXCEPT ![n + 1] = e.p]
        /\ thetas1' = [thetas1 EXCEPT ![n + 1] = e.thetas1]
        /\ theta2' = [theta2 EXCEPT ![n + 1] = Store(e.theta2)]
        /\ thetas2' = [thetas2 EXCEPT ![n + 1] = Store(e.thetas2)]
  /\ n' = n + 1
  /\ UNCHANGED <<dtype, pc, fn, up, lo, theta1, az, ref, stiff, Rpp, Rps, Tpp, Tps, ret>>

\* snell returns (theta2, thetas1, thetas2, p), to the user or to its caller;
\* zoeppritz then allocates its four coefficient arrays.
SnellReturn ==
  /\ pc = "snell" /\ n = Len(theta1)
  /\ IF fn = "snell"
       THEN pc' = "done" /\ ret' = Ret(<<theta2, thetas1, thetas2, p>>)
       ELSE pc' = "body" /\ ret' = ret
  /\ n' = 0
  /\ IF fn = "zoeppritz"
       THEN /\ Rpp' = Full(Len(theta1), Zero) /\ Rps' = Full(Len(theta1), Zero)
            /\ Tpp' = Full(Len(theta1), Zero) /\ Tps' = Full(Len(theta1), Zero)
       ELSE UNCHANGED <<Rpp, Rps, Tpp, Tps>>
  /\ UNCHANGED <<dtype, fn, up, lo, theta1, az, ref, stiff, p, theta2, thetas1, thetas2>>

ZoeppritzStep ==
  /\ pc = "body" /\ fn = "zoeppritz" /\ n < Len(theta1)
  /\ LET z == ZoeppritzElem(up.vp, up.vs, up.rho, lo.vp, lo.vs, lo.rho,
                            theta1[n + 1], thetas1[n + 1], theta2[n + 1], thetas2[n + 1])
     IN IF z.exc # "none"
          THEN /\ pc' = "done" /\ ret' = z
               /\ UNCHANGED <<n, Rpp, Rps, Tpp, Tps>>
          ELSE /\ Rpp' = [Rpp EXCEPT ![n + 1] = z.val[1]]
               /\ Rps' = [Rps EXCEPT ![n + 1] = z.val[2]]
               /\ Tpp' = [Tpp EXCEPT ![n + 1] = z.val[3]]
               /\ Tps' = [Tps EXCEPT ![n + 1] = z.val[4]]
               /\ n' = n + 1
               /\ UNCHANGED <<pc, ret>>
  /\ UNCHANGED <<dtype, fn, up, lo, theta1, az, ref, stiff, p, theta2, thetas1, thetas2>>

ZoeppritzReturn ==
  /\ pc = "body" /\ fn = "zoeppritz" /\ n = Len(theta1)
  /\ pc' = "done" /\ ret' = Ret(ZoeppritzResult(Rpp, Rps, Tpp, Tps))
  /\ UNCHANGED <<dtype, fn, up, lo, theta1, az, ref, stiff, n, p, theta2, thetas1, thetas2,
                 Rpp, Rps, Tpp, Tps>>

\* The rest of a function after its call of snell returned.
Body(f, out) ==
  /\ pc = "body" /\ fn = f
  /\ pc' = "done" /\ ret' = out
  /\ UNCHANGED <<dtype, fn, up, lo, theta1, az, ref, stiff, n, p, theta2, thetas1, thetas2,
                 Rpp, Rps, Tpp, Tps>>

ShueyBody ==
  Body("shuey", shuey(up.vp, up.vs, up.rho, lo.vp, lo.vs, lo.rho, theta1, theta2))

AkiRichardsBody ==
  Body("aki_richards",
       aki_richards(up.vp, up.vs, up.rho, lo.vp, lo.vs, lo.rho, theta1, theta2, p))

BortfeldBody ==
  Body("bortfeld", bortfeld(up.vp, up.vs, up.rho, lo.vp, lo.vs, lo.rho, theta1, theta2))

RugerVtiBody ==
  Body("ruger_vti", ruger_vti(up.vp, up.vs, up.rho, up.epsilon, up.delta,
                              lo.vp, lo.vs, lo.rho, lo.epsilon, lo.delta, theta1, theta2))

RugerHtiBody ==
  Body("ruger_hti", ruger_hti(up.vp, up.vs, up.rho, up.epsilon, up.delta, up.gamma,
                              lo.vp, lo.vs, lo.rho, lo.epsilon, lo.delta, lo.gamma, theta1, az))

\* exact_vti is given the stiffnesses of the two layers.
ExactVtiBody ==
  LET C1 == Cij(up.epsilon, up.delta, up.gamma, up.rho, up.vp, up.vs)
      C2 == Cij(lo.epsilon, lo.delta, lo.gamma, lo.rho, lo.vp, lo.vs)
  IN Body("exact_vti",
          exact_vti(up.vp, lo.vp, up.vs, lo.vs, up.rho, lo.rho,
                    theta1, theta2, thetas1, thetas2,
                    C1[1][1], C1[1][3], C1[3][3], C1[5][5],
                    C2[1][1], C2[1][3], C2[3][3], C2[5][5]))

\* A call of a function that does not call snell: it runs to its outcome in one step.
Direct(f, l1, l2, th, a, r, c, out) ==
  /\ pc = "idle"
  /\ pc' = "done" /\ fn' = f /\ up' = l1 /\ lo' = l2 /\ theta1' = th
  /\ az' = a /\ ref' = r /\ stiff' = c /\ ret' = out
  /\ UNCHANGED <<dtype, n, p, theta2, thetas1, thetas2, Rpp, Rps, Tpp, Tps>>

ExactHtiCall ==
  \E l1 \in Layers, l2 \in Layers, th \in AngleSeqs :
    Direct("exact_hti", l1, l2, th, az, ref, stiff,
           exact_hti(l1.vp, l1.vs, l1.rho, l1.epsilon, l1.delta, l1.gamma,
                     l2.vp, l2.vs, l2.rho, l2.epsilon, l2.delta, l2.gamma, th))

ThomsenCall ==
  \E l \in Layers : \E c \in Tensors(l) :
    Direct("thomsen", l, l, <<>>, az, ref, c, Ret(thomsen(c)))

CijCall ==
  \E l \in Layers :
    Direct("Cij", l, l, <<>>, az, ref, <<>>, Ret(Cij(l.epsilon, l.delta, l.gamma, l.rho, l.vp, l.vs)))

\* The round trip: Cij is called with the parameters thomsen returned and with the
\* density and vertical velocities of the same medium.
CijOfThomsen ==
  /\ pc = "done" /\ fn = "thomsen" /\ ret.exc = "none"
  /\ fn' = "Cij"
  /\ ret' = Ret(Cij(ret.val[1], ret.val[2], ret.val[3], up.rho, up.vp, up.vs))
  /\ UNCHANGED <<dtype, pc, up, lo, theta1, az, ref, stiff, n, p, theta2, thetas1, thetas2,
                 Rpp, Rps, Tpp, Tps>>

ElasticImpedanceCall ==
  \E l \in Layers, th \in Angles :
    Direct("elastic_impedance", l, l, <<>>, th, ref, stiff,
           Ret(elastic_impedance(l.vp, l.vs, l.rho, th)))

ExtendedElasticImpedanceCall ==
  \E l \in Layers, chi \in Angles, r \in References :
    Direct("extended_elastic_impedance", l, l, <<>>, chi, r, stiff,
           Ret(extended_elastic_impedance(l.vp, l.vs, l.rho, chi, r.vp, r.vs, r.rho)))

Reset ==
  /\ pc = "done"
  /\ pc' = "idle" /\ fn' = "none" /\ up' = NoLayer /\ lo' = NoLayer
  /\ theta1' = <<>> /\ az' = Ang(Zero, One)
  /\ ref' = Reference(One, One, One) /\ stiff' = <<>>
  /\ n' = 0 /\ p' = <<>> /\ theta2' = <<>> /\ thetas1' = <<>> /\ thetas2' = <<>>
  /\ Rpp' = <<>> /\ Rps' = <<>> /\ Tpp' = <<>> /\ Tps' = <<>>
  /\ ret' = NoRet
  /\ UNCHANGED dtype

Next ==
  \/ Call \/ SnellStep \/ SnellReturn
  \/ ShueyBody \/ AkiRichardsBody \/ BortfeldBody
  \/ ZoeppritzStep \/ ZoeppritzReturn
  \/ RugerVtiBody \/ RugerHtiBody \/ ExactVtiBody
  \/ ExactHtiCall \/ ThomsenCall \/ CijCall \/ CijOfThomsen
  \/ ElasticImpedanceCall \/ ExtendedElasticImpedanceCall
  \/ Reset

Spec == Init /\ [][Next]_vars

(* ----------------------------------------------------------------- claims *)

\* The call of f has ended, with a value or an exception.
Done(f) == pc = "done" /\ fn = f

\* The no-value marker as snell's arrays hold it.
Marker == Store(None)

IsAngle(x) == x.k = "ang"

\* theta is strictly below the critical angle crit (false when crit does not exist).
Below(theta, crit) == IsAngle(crit) /\ Less(theta.s, crit.s)

\* C1 -- snell's three-branch policy: below theta_crit1 both theta2 and thetas2 are
\* real angles; from theta_crit1 up to theta_crit2 theta2 is the no-value marker and
\* thetas2 a real angle; from theta_crit2 on both are the marker; p and thetas1 are
\* always defined and no exception is raised.
C1_SnellThreeBranch ==
  Done("snell") =>
    /\ ret.exc = "none"
    /\ \A i \in 1..Len(theta1) :
         LET c1 == ThetaCrit1(up.vp, lo.vp)
             c2 == ThetaCrit2(up.vp, lo.vs)
         IN /\ Below(theta1[i], c1) => IsAngle(theta2[i]) /\ IsAngle(thetas2[i])
            /\ (AngleGE(theta1[i], c1) /\ Below(theta1[i], c2))
                 => theta2[i] = Marker /\ IsAngle(thetas2[i])
            /\ AngleGE(theta1[i], c2) => theta2[i] = Marker /\ thetas2[i] = Marker
            /\ IsReal(p[i]) /\ IsAngle(thetas1[i])

\* A state in which snell has handled an angle at or beyond theta_crit2.
C1_BeyondCrit2 ==
  /\ Done("snell")
  /\ \E i \in 1..Len(theta1) : AngleGE(theta1[i], ThetaCrit2(up.vp, lo.vs))

\* C2 -- when snell marked theta2 undefined at some index, shuey, aki_richards,
\* bortfeld, ruger_vti and ruger_hti still return a result for the whole sequence whose
\* entry at that index is the marker or not-a-number, and none raises.
C2_ApproximationsPropagate ==
  \A f \in {"shuey", "aki_richards", "bortfeld", "ruger_vti", "ruger_hti"} :
    (Done(f) /\ \E i \in 1..Len(theta2) : theta2[i] = Marker) =>
      /\ ret.exc = "none"
      /\ Len(ret.val) = Len(theta1)
      /\ \A i \in 1..Len(theta2) : theta2[i] = Marker => ret.val[i] \in {None, NaN}

\* C3 -- with identical layers shuey, aki_richards, bortfeld, zoeppritz, ruger_vti and
\* ruger_hti return 0 at every incidence angle.
C3_IdenticalLayersZero ==
  \A f \in {"shuey", "aki_richards", "bortfeld", "zoeppritz", "ruger_vti", "ruger_hti"} :
    (Done(f) /\ up = lo) =>
      /\ ret.exc = "none"
      /\ \A i \in 1..Len(theta1) : ret.val[i] = Zero

\* Every angle of a non-empty sequence is zero.
NormalIncidence == Len(theta1) > 0 /\ \A i \in 1..Len(theta1) : theta1[i] = Ang(Zero, One)

\* (Z2 - Z1)/(Z2 + Z1) with Z = rho*Vp.
ImpedanceContrast(l1, l2) ==
  Div(Sub(Mul(l2.rho, l2.vp), Mul(l1.rho, l1.vp)), Add(Mul(l2.rho, l2.vp), Mul(l1.rho, l1.vp)))

\* (vp2 - vp1)/(vp2 + vp1) + (rho2 - rho1)/(rho2 + rho1)
LinearisedContrast(l1, l2) ==
  Add(Div(Sub(l2.vp, l1.vp), Add(l2.vp, l1.vp)), Div(Sub(l2.rho, l1.rho), Add(l2.rho, l1.rho)))

Tol == Q(1, 1000)

\* a and b are numbers no further apart than Tol.
Close(a, b) ==
  /\ IsQ(a) /\ IsQ(b)
  /\ ~Less(Tol, Sub(a, b)) /\ ~Less(Tol, Sub(b, a))

C5_AllFourExposed ==
  (Done("zoeppritz") /\ ret.exc = "none") => ret.val = <<Rpp, Rps, Tpp, Tps>>

\* C6 -- every function taking an angle sequence returns an empty output for an
\* empty sequence and raises nothing.
C6_EmptyInEmptyOut ==
  \A f \in SnellCallers \cup {"snell", "exact_hti"} :
    (Done(f) /\ theta1 = <<>>) =>
      /\ ret.exc = "none"
      /\ ret.val = (IF f = "snell" THEN << <<>>, <<>>, <<>>, <<>> >> ELSE <<>>)

\* C7 -- extended_elastic_impedance at chi = 0 with the material's own values as
\* references equals elastic_impedance at theta = 0.
C7_ExtendedReducesToElastic ==
  (Done("extended_elastic_impedance") /\ az = Ang(Zero, One)
     /\ ref = Reference(up.vp, up.vs, up.rho)) =>
    /\ ret.exc = "none" /\ IsQ(ret.val)
    /\ ret.val = elastic_impedance(up.vp, up.vs, up.rho, Ang(Zero, One))

C7_OwnReferencesAtZero ==
  /\ Done("extended_elastic_impedance") /\ az = Ang(Zero, One)
  /\ ref = Reference(up.vp, up.vs, up.rho)
  /\ IsQ(ret.val) /\ Less(One, ret.val)

\* Cij has been called on what thomsen returned for the matrix stiff.
RoundTrip == Done("Cij") /\ stiff # <<>>

\* C8 (as stated) -- the round trip reproduces every entry of any physically valid
\* transversely isotropic stiffness matrix with C33 > C55 > 0.
C8_RoundTripAny ==
  RoundTrip => ret.exc = "none" /\ ret.val = stiff

\* C8 -- for a matrix in the layout Cij fills (C23 = C32 = 0) with C33 > C55 > 0 the
\* round trip reproduces every entry when C13 + C55 >= 0; when C13 + C55 < 0 it
\* returns -C13 - 2*C55 as C13 and reproduces every other entry.
C8_RoundTrip ==
  (RoundTrip /\ stiff[2][3] = Zero) =>
    /\ ret.exc = "none"
    /\ IF Less(Add(stiff[1][3], stiff[5][5]), Zero)
         THEN LET c13 == Sub(Neg(stiff[1][3]), Mul(Two, stiff[5][5]))
              IN ret.val = [stiff EXCEPT ![1][3] = c13, ![3][1] = c13]
         ELSE ret.val = stiff

\* The round trip has run on an anisotropic matrix in Cij's layout with C13 + C55 > 0.
C8_AnisotropicRoundTrip ==
  /\ RoundTrip /\ stiff[2][3] = Zero
  /\ stiff[1][1] # stiff[3][3] /\ stiff[6][6] # stiff[5][5]
  /\ Less(Zero, Add(stiff[1][3], stiff[5][5]))
  /\ ret.val = stiff

\* M of the angle at index i, rebuilt from snell's arrays.
MatrixAt(i) ==
  ZoeppritzM(up.vp, up.vs, up.rho, lo.vp, lo.vs, lo.rho,
             theta1[i], thetas1[i], theta2[i], thetas2[i])

\* m has no inverse: an entry is not a number, or its determinant is zero.
NotInvertible(m) ==
  \/ \E x \in Entries(m) : x.k = "nan"
  \/ /\ \A x \in Entries(m) : x.k = "q"
     /\ LET b == [i \in 1..4 |-> One]
        IN Det4([i \in 1..4 |-> ScaleRow(m[i], RowDen(m, b, i))]) = 0

\* C9 -- zoeppritz stores no coefficient for an angle whose matrix M cannot be
\* inverted: it raises a singular-matrix error at that angle instead.
C9_SingularRaises ==
  (fn = "zoeppritz" /\ pc \in {"body", "done"}) =>
    \A i \in 1..Len(theta1) :
      NotInvertible(MatrixAt(i)) =>
        /\ n < i
        /\ (pc = "done" => ret.exc \in {"LinAlgError", "SingularMatrixError"})

\* C10 -- for valid parameters and a pre-critical incidence angle exact_hti runs to
\* its return statement and returns a reflectivity.
C10_ExactHtiReturns ==
  (Done("exact_hti") /\ Len(theta1) > 0
     /\ \A i \in 1..Len(theta1) : Below(theta1[i], ThetaCrit1(up.vp, lo.vp))) =>
    ret.exc = "none"
====
